---- MODULE Spec2Model ----
(***************************************************************************)
(* GlobalPulse24 backend (backend/main.py, backend/models.py): the article *)
(* collection and the users collection of the document store, the HTTP     *)
(* handlers that read and write them, and the startup hook that seeds the  *)
(* default admin account.                                                  *)
(*                                                                         *)
(* Every `await` on the store is one atomic store operation; a handler     *)
(* with several awaits (approve_news, startup_db_client) is one action per *)
(* await, so that handlers of concurrent requests interleave exactly where *)
(* the event loop lets them.  Handlers with a single store operation are   *)
(* one action.                                                             *)
(*                                                                         *)
(* Optional values (Optional[str], a datetime or None) are sequences of    *)
(* length at most one: None is << >> and a present value v is << v >>.     *)
(***************************************************************************)
EXTENDS Integers, Sequences, FiniteSets, TLC

(***************************************************************************)
(* Bounds of the model.                                                    *)
(***************************************************************************)
MaxId == 2          \* ObjectIds the store can hand out: 1..MaxId
NumRequests == 2    \* approve requests that can be in flight together
NumProcesses == 4   \* server processes that can start against the store

ObjectIds == 1..MaxId
\* Path parameter strings: n in ObjectIds is the 24-hex string of ObjectId n,
\* 0 is a string that is not 24 hex digits.
IdStrings == 0..MaxId
\* datetimes, as instants in order
Times == {1, 2}
Requests == 1..NumRequests
Processes == 1..NumProcesses
Authors == {"alice", "bob"}
Titles == {"A"}
\* status values a client may put into the submit body
ClientStatuses == {"pending", "approved", "published"}

None == << >>
Some(v) == << v >>

\* os.getenv("ADMIN_PASSWORD", "supersecret123")
admin_password == "supersecret123"
\* X-Admin-Token as received: absent, empty, the secret, a case variant of it
Headers == {None, Some(""), Some("supersecret123"), Some("SUPERSECRET123")}

VARIABLES
    articles,   \* db["articles"]: ObjectId -> document
    users,      \* db["users"]: the documents in insertion order
    spc,        \* startup_db_client of each process: where it stands
    pc,         \* approve_news of each request in flight: where it stands
    obj_id,     \* approve_news: the local obj_id
    response    \* the response most recently sent by any handler

vars == <<articles, users, spc, pc, obj_id, response>>

(***************************************************************************)
(* models.py                                                               *)
(***************************************************************************)
\* NewsArticleCreate.model_dump(): title, content, author, category and
\* image_url are opaque strings that no handler reads; title stands for them.
NewsArticleCreate(body) ==
    [title |-> body.title, author |-> body.author, status |-> body.status]

\* NewsArticleDB(**kwargs): the set of outcomes, empty when validation raises.
\* timestamp is a required datetime whose default_factory (the clock) runs
\* only when the key is absent; an explicit None is validated as a datetime
\* and rejected.
NewsArticleDB(kwargs) ==
    IF "timestamp" \in DOMAIN kwargs
    THEN IF kwargs.timestamp = None
         THEN {}
         ELSE {[title |-> kwargs.title, author |-> kwargs.author,
                status |-> kwargs.status, timestamp |-> kwargs.timestamp[1]]}
    ELSE {[title |-> kwargs.title, author |-> kwargs.author,
           status |-> kwargs.status, timestamp |-> now] : now \in Times}

\* NewsArticleResponse: the stored fields plus id
NewsArticleResponse(id, doc) ==
    [id |-> id, title |-> doc.title, author |-> doc.author,
     status |-> doc.status, timestamp |-> doc.timestamp]

(***************************************************************************)
(* The store operations the handlers use.                                  *)
(***************************************************************************)
\* collection.insert_one(doc) with the _id the store generated
insert_one(coll, oid, doc) ==
    [i \in DOMAIN coll \cup {oid} |-> IF i = oid THEN doc ELSE coll[i]]

\* find_one with a filter key no document has: {"id": oid}
find_one_wrong_key(coll, oid) == None

\* collection.find_one({"_id": oid}): None or the document
find_one(coll, oid) ==
    IF oid \in DOMAIN coll THEN Some(coll[oid]) ELSE None

\* find with the filter dropped: find({})
find_unfiltered(coll, status) == DOMAIN coll

\* collection.find({"status": status}): the ids of the matching documents
find(coll, status) ==
    {i \in DOMAIN coll : coll[i].status = status}

\* cursor.sort("timestamp", -1): the orders the cursor may deliver; documents
\* with equal timestamps come in either order.
sort(coll, ids) ==
    {s \in [1..Cardinality(ids) -> ids] :
        /\ \A j, k \in DOMAIN s : j # k => s[j] # s[k]
        /\ \A j, k \in DOMAIN s :
              j < k => coll[s[j]].timestamp >= coll[s[k]].timestamp}

\* update_one(..., upsert=True): an unmatched id creates a document
update_one_upsert(coll, oid, status) ==
    IF oid \in DOMAIN coll
    THEN [coll |-> [coll EXCEPT ![oid].status = status],
          modified_count |-> IF coll[oid].status # status THEN 1 ELSE 0]
    ELSE [coll |-> [i \in DOMAIN coll \cup {oid} |->
                      IF i = oid
                      THEN [title |-> "A", author |-> "alice",
                            status |-> status, timestamp |-> 1]
                      ELSE coll[i]],
          modified_count |-> 0]

\* update_many with the filter on status instead of _id: every document
\* not yet in that status is set to it
update_many_pending(coll, oid, status) ==
    [coll |-> [i \in DOMAIN coll |-> [coll[i] EXCEPT !.status = status]],
     modified_count |-> IF oid \in DOMAIN coll /\ coll[oid].status # status
                        THEN 1 ELSE 0]

\* collection.update_one({"_id": oid}, {"$set": {"status": status}}):
\* the collection afterwards and modified_count
update_one(coll, oid, status) ==
    IF oid \in DOMAIN coll /\ coll[oid].status # status
    THEN [coll |-> [coll EXCEPT ![oid].status = status], modified_count |-> 1]
    ELSE [coll |-> coll, modified_count |-> 0]

\* collection.count_documents({"author": author, "status": status})
count_documents(coll, author, status) ==
    Cardinality({i \in DOMAIN coll :
                    coll[i].author = author /\ coll[i].status = status})

\* ObjectId(id): the outcomes, empty when bson raises InvalidId
ObjectId(id) == IF id \in ObjectIds THEN {id} ELSE {}

\* str(document["_id"])
str(oid) == oid

(***************************************************************************)
(* main.py                                                                 *)
(***************************************************************************)
\* the guard with a truthiness test in front:
\* if api_key_header and api_key_header != admin_password
verify_admin_password_truthy(api_key_header) ==
    IF api_key_header # None /\ api_key_header # Some("")
       /\ api_key_header # Some(admin_password)
    THEN FALSE ELSE TRUE

\* verify_admin_password: TRUE when the dependency returns, FALSE when it
\* raises 403
verify_admin_password(api_key_header) ==
    IF api_key_header # Some(admin_password) THEN FALSE ELSE TRUE

Reply(op, code, body) == [op |-> op, code |-> code, body |-> body]

\* the documents of a listing, in cursor order, each with its id
Listing(coll, s) == [k \in DOMAIN s |-> NewsArticleResponse(str(s[k]), coll[s[k]])]

\* The store as a process finds it.  The collections live in the MongoDB
\* deployment that database.py connects to and outlive the process: the
\* article collection holds any set of documents stored earlier, all awaiting
\* approval (no route of this program removes a document, and submit_news
\* adds none, see NewsArticleDB); the users collection is empty, as on a first
\* deployment.  No process has started and no request is in flight.
Init ==
    /\ \E D \in SUBSET ObjectIds :
          articles \in [D -> [title : Titles, author : Authors,
                              status : {"pending"}, timestamp : Times]]
    /\ users = << >>
    /\ spc = [p \in Processes |-> "down"]
    /\ pc = [r \in Requests |-> "idle"]
    /\ obj_id = [r \in Requests |-> 0]
    /\ response = Reply("none", 0, << >>)

\* POST /news/submit
submit_news(body) ==
    LET article_dict == [title |-> NewsArticleCreate(body).title,
                         author |-> NewsArticleCreate(body).author,
                         status |-> "pending",
                         timestamp |-> None]
        db_article == NewsArticleDB(article_dict)
    IN  /\ IF db_article = {}
           THEN \* the ValidationError is not handled: 500, nothing stored
                /\ response' = Reply("submit", 500, << >>)
                /\ articles' = articles
           ELSE \E doc \in db_article, oid \in ObjectIds \ DOMAIN articles :
                /\ articles' = insert_one(articles, oid, doc)
                /\ response' = Reply("submit", 201,
                                     << NewsArticleResponse(str(oid), doc) >>)
        /\ UNCHANGED <<users, spc, pc, obj_id>>

\* GET /news/live
get_live_news ==
    /\ \E s \in sort(articles, find(articles, "approved")) :
          response' = Reply("live", 200, Listing(articles, s))
    /\ UNCHANGED <<articles, users, spc, pc, obj_id>>

\* GET /admin/pending
get_pending_news(api_key_header) ==
    /\ IF verify_admin_password(api_key_header)
       THEN \E s \in sort(articles, find(articles, "pending")) :
               response' = Reply("pending", 200, Listing(articles, s))
       ELSE response' = Reply("pending", 403, << >>)
    /\ UNCHANGED <<articles, users, spc, pc, obj_id>>

\* PUT /admin/approve/{id}, up to the first await: the guard, then ObjectId(id)
approve_news(r, api_key_header, id) ==
    /\ pc[r] = "idle"
    /\ IF ~verify_admin_password(api_key_header)
       THEN /\ response' = Reply("approve", 403, << >>)
            /\ UNCHANGED <<pc, obj_id>>
       ELSE IF ObjectId(id) = {}
       THEN /\ response' = Reply("approve", 400, << >>)
            /\ UNCHANGED <<pc, obj_id>>
       ELSE /\ \E o \in ObjectId(id) : obj_id' = [obj_id EXCEPT ![r] = o]
            /\ pc' = [pc EXCEPT ![r] = "update"]
            /\ UNCHANGED response
    /\ UNCHANGED <<articles, users, spc>>

\* await db["articles"].update_one(...), then the test of modified_count
approve_news_update(r) ==
    /\ pc[r] = "update"
    /\ LET res == update_one(articles, obj_id[r], "published")
       IN  /\ articles' = res.coll
           /\ pc' = [pc EXCEPT ![r] = IF res.modified_count = 0
                                      THEN "existing" ELSE "updated"]
    /\ UNCHANGED <<users, spc, obj_id, response>>

\* existing = await db["articles"].find_one(...); 404 when there is none
approve_news_existing(r) ==
    /\ pc[r] = "existing"
    /\ LET existing == find_one(articles, obj_id[r])
       IN  IF existing = None
           THEN /\ response' = Reply("approve", 404, << >>)
                /\ pc' = [pc EXCEPT ![r] = "idle"]
                /\ obj_id' = [obj_id EXCEPT ![r] = 0]
           ELSE /\ pc' = [pc EXCEPT ![r] = "updated"]
                /\ UNCHANGED <<obj_id, response>>
    /\ UNCHANGED <<articles, users, spc>>

\* updated_article = await db["articles"].find_one(...); the response.
\* None["_id"] raises TypeError, which is not handled: 500.
approve_news_updated(r) ==
    /\ pc[r] = "updated"
    /\ LET updated_article == find_one(articles, obj_id[r])
       IN  IF updated_article = None
           THEN response' = Reply("approve", 500, << >>)
           ELSE response' = Reply("approve", 200,
                   << NewsArticleResponse(str(obj_id[r]), updated_article[1]) >>)
    /\ pc' = [pc EXCEPT ![r] = "idle"]
    /\ obj_id' = [obj_id EXCEPT ![r] = 0]
    /\ UNCHANGED <<articles, users, spc>>

\* GET /news/earnings for the user the bearer-token guard yields
get_publisher_earnings(current_user) ==
    /\ LET n == count_documents(articles, current_user, "approved")
           revenue == n * 50
       IN  response' = Reply("earnings", 200,
               << [total_revenue |-> revenue, approved_articles |-> n,
                   pending_payments |-> revenue] >>)
    /\ UNCHANGED <<articles, users, spc, pc, obj_id>>

\* A process starts (or is restarted) and its startup hook runs
\* admin_user = await db["users"].find_one({"username": "yash"})
startup_db_client(p) ==
    /\ spc[p] \in {"down", "up"}
    /\ LET admin_user == {k \in DOMAIN users : users[k].username = "yash"}
       IN  spc' = [spc EXCEPT ![p] = IF admin_user = {} THEN "insert" ELSE "up"]
    /\ UNCHANGED <<articles, users, pc, obj_id, response>>

\* await db["users"].insert_one({...}); the hook returns and the process serves
startup_db_client_insert(p) ==
    /\ spc[p] = "insert"
    /\ users' = Append(users, [username |-> "yash",
                               hashed_password |-> "hash(admin123)",
                               role |-> "admin"])
    /\ spc' = [spc EXCEPT ![p] = "up"]
    /\ UNCHANGED <<articles, pc, obj_id, response>>

\* The handlers, with the approve requests in R in flight
Handlers(R) ==
    \/ \E body \in [title : Titles, author : Authors, status : ClientStatuses] :
          submit_news(body)
    \/ \E r \in R, h \in Headers, id \in IdStrings : approve_news(r, h, id)
    \/ \E r \in R : approve_news_update(r)
    \/ \E r \in R : approve_news_existing(r)
    \/ \E r \in R : approve_news_updated(r)

\* Requests served one at a time: every route
Next ==
    \/ Handlers({1})
    \/ get_live_news
    \/ \E h \in Headers : get_pending_news(h)
    \/ \E u \in Authors : get_publisher_earnings(u)

Spec == Init /\ [][Next]_vars

\* Approve requests in flight together, with submits between their steps
NextConcurrent == Handlers(Requests)

SpecConcurrent == Init /\ [][NextConcurrent]_vars

NextStartup ==
    \/ \E p \in Processes : startup_db_client(p)
    \/ \E p \in Processes : startup_db_client_insert(p)

SpecStartup == Init /\ [][NextStartup]_vars

(***************************************************************************)
(* Properties.                                                             *)
(***************************************************************************)
\* The articles approved through PUT /admin/approve: the store starts with
\* pending documents only and approve_news_update alone writes "published".
Approved == {i \in DOMAIN articles : articles[i].status = "published"}

\* ids of the documents in a response body
BodyIds(resp) == {resp.body[k].id : k \in DOMAIN resp.body}

SubmitBodies == [title : Titles, author : Authors, status : ClientStatuses]

\* C1: every GET /news/live includes every article that was approved through
\* PUT /admin/approve before it.
C1_LiveIncludesApproved ==
    [][get_live_news =>
          \A i \in Approved : str(i) \in BodyIds(response')]_vars

\* C2: GET /news/earnings for caller u returns approved_articles equal to the
\* number of u's articles approved through the approve operation, and
\* total_revenue equal to 50 times that.
C2_EarningsCountApproved ==
    [][\A u \in Authors :
          get_publisher_earnings(u) =>
             /\ response'.body[1].approved_articles =
                   Cardinality({i \in Approved : articles[i].author = u})
             /\ response'.body[1].total_revenue =
                   50 * response'.body[1].approved_articles]_vars

\* C3: for every valid submission, whatever status the client supplied, the
\* article returned and the article persisted both have status pending.
C3_SubmitForcesPending ==
    [][\A body \in SubmitBodies :
          submit_news(body) =>
             /\ response'.code = 201
             /\ Len(response'.body) = 1
             /\ response'.body[1].status = "pending"
             /\ response'.body[1].id \in DOMAIN articles'
             /\ articles'[response'.body[1].id].status = "pending"]_vars

\* C4: every valid submission succeeds with 201, adds exactly one article
\* under an id no existing article has, with a server-assigned timestamp, and
\* returns that stored record with its id.
C4_SubmitStoresOne ==
    [][\A body \in SubmitBodies :
          submit_news(body) =>
             /\ response'.code = 201
             /\ \E i \in DOMAIN articles' \ DOMAIN articles :
                   /\ DOMAIN articles' = DOMAIN articles \cup {i}
                   /\ \A j \in DOMAIN articles : articles'[j] = articles[j]
                   /\ articles'[i].timestamp \in Times
                   /\ response'.body =
                         << NewsArticleResponse(str(i), articles'[i]) >>]_vars

\* C5: approve with a well-formed id that matches no stored article changes
\* nothing in the article collection and answers 404.
C5_ApproveUnknownNotFound ==
    [][\A r \in Requests :
          obj_id[r] \notin DOMAIN articles =>
             /\ approve_news_update(r) =>
                   articles' = articles /\ pc'[r] = "existing"
             /\ approve_news_existing(r) =>
                   /\ articles' = articles
                   /\ response' = Reply("approve", 404, << >>)
                   /\ pc'[r] = "idle"]_vars

\* C5 witness: an approve call has answered 404 against a store that holds
\* articles.
C5_Witness ==
    /\ response = Reply("approve", 404, << >>)
    /\ DOMAIN articles # {}

\* C6: approve is idempotent on an existing article: on a pending article the
\* update moves it to the terminal status; on an article already there the
\* update changes nothing, the existence check passes, and the call answers
\* 200 with the current record, the store left as it was.
C6_ApproveIdempotent ==
    [][\A r \in Requests :
          obj_id[r] \in DOMAIN articles =>
             /\ approve_news_update(r) /\ articles[obj_id[r]].status = "pending" =>
                   /\ articles' = [articles EXCEPT ![obj_id[r]].status = "published"]
                   /\ pc'[r] = "updated"
             /\ approve_news_update(r) /\ articles[obj_id[r]].status = "published" =>
                   /\ articles' = articles
                   /\ pc'[r] = "existing"
             /\ approve_news_existing(r) =>
                   /\ articles' = articles
                   /\ pc'[r] = "updated"
                   /\ response' = response
             /\ approve_news_updated(r) =>
                   /\ articles' = articles
                   /\ articles[obj_id[r]].status = "published"
                   /\ response' = Reply("approve", 200,
                         << NewsArticleResponse(str(obj_id[r]),
                                                articles[obj_id[r]]) >>)]_vars

\* C6 witness: a first call has answered 200 for an article, and a second call
\* on the same id has run its update, which modified nothing.
C6_Witness ==
    \E r \in Requests :
        /\ pc[r] = "existing"
        /\ obj_id[r] \in DOMAIN articles
        /\ response = Reply("approve", 200,
              << NewsArticleResponse(str(obj_id[r]), articles[obj_id[r]]) >>)

\* C7: a request to GET /admin/pending or PUT /admin/approve/{id} whose
\* X-Admin-Token is absent or differs from the admin secret is answered 403
\* with no article in the body, changes no article and starts no approval.
C7_GuardRejects ==
    [][\A h \in Headers :
          h # Some(admin_password) =>
             /\ get_pending_news(h) =>
                   response' = Reply("pending", 403, << >>) /\ articles' = articles
             /\ \A r \in Requests, id \in IdStrings :
                   approve_news(r, h, id) =>
                      /\ response' = Reply("approve", 403, << >>)
                      /\ articles' = articles
                      /\ pc' = pc]_vars

\* C7 witness: a request was rejected with 403 while pending articles were
\* in the store.
C7_Witness ==
    /\ response.code = 403
    /\ find(articles, "pending") # {}

\* C8: every stored article's status is pending or the terminal status; a
\* live listing holds no pending article and a pending listing holds only
\* pending ones.
C8_StatusValid ==
    /\ \A i \in DOMAIN articles : articles[i].status \in {"pending", "published"}
    /\ response.op = "live" =>
          \A k \in DOMAIN response.body : response.body[k].status # "pending"
    /\ response.op = "pending" =>
          \A k \in DOMAIN response.body : response.body[k].status = "pending"

\* C8 witness: a pending listing was served from a store that also holds an
\* approved article.
C8_Witness ==
    /\ response.op = "pending"
    /\ response.body # << >>
    /\ Approved # {}

\* C9: the users collection never holds more than one user "yash", and once
\* a process is up it holds exactly one, with role admin.
C9_OneAdmin ==
    LET yash == {k \in DOMAIN users : users[k].username = "yash"}
    IN  /\ Cardinality(yash) <= 1
        /\ (\E p \in Processes : spc[p] = "up") =>
              /\ Cardinality(yash) = 1
              /\ \A k \in yash : users[k].role = "admin"

\* C10: under any interleaving of approve calls and submits, an article is
\* changed only by the update of an approve call for its own id, and only in
\* its status, which becomes the terminal one; no article disappears; and an
\* approve call for a stored article never answers 404: it answers 200 with
\* the article in the terminal status.
C10_ConcurrentApprove ==
    [][/\ \A i \in DOMAIN articles :
             /\ i \in DOMAIN articles'
             /\ articles'[i] # articles[i] =>
                   /\ \E r \in Requests : approve_news_update(r) /\ obj_id[r] = i
                   /\ articles'[i] = [articles[i] EXCEPT !.status = "published"]
       /\ \A r \in Requests :
             obj_id[r] \in DOMAIN articles =>
                /\ approve_news_existing(r) => pc'[r] = "updated"
                /\ approve_news_updated(r) =>
                      /\ response'.code = 200
                      /\ response'.body[1].id = str(obj_id[r])
                      /\ response'.body[1].status = "published"]_vars

\* C10 witness: two approve calls for the same stored article are in flight,
\* one whose update modified it and one whose update found nothing to modify,
\* while another article is still pending.
C10_Witness ==
    \E r1, r2 \in Requests :
        /\ r1 # r2
        /\ obj_id[r1] = obj_id[r2]
        /\ obj_id[r1] \in DOMAIN articles
        /\ pc[r1] = "updated"
        /\ pc[r2] = "existing"
        /\ \E j \in DOMAIN articles : j # obj_id[r1] /\ articles[j].status = "pending"
====
